---- MODULE Spec2Model ----
(***************************************************************************)
(* A model of src/main.js: the CSV loader and its cleaning pass, the       *)
(* filter controls, renderCharts, the two chart renderers and the hover    *)
(* handlers.                                                               *)
(*                                                                         *)
(* JavaScript strings are sequences of one-character strings, so that      *)
(* trim, split, replace, parseFloat and sort are computed character by     *)
(* character.  A JavaScript value is a record [t, s, m, e]: t is the type  *)
(* tag, s the characters of a string, and a finite number is m * 10^e, an  *)
(* exact decimal: within the bounds on the inputs every such number is a   *)
(* finite double.  +0 and -0 are one value: they are === and both finite.  *)
(***************************************************************************)
EXTENDS Integers, Sequences, FiniteSets, TLC

VARIABLES
    pc,          \* position of the d3.csv promise: "fetching", "ready", "failed"
    fetches,     \* number of times the CSV file was requested
    rawData,     \* the parsed rows the promise resolved with
    errorLog,    \* number of console.error calls
    data,        \* the array initDashboard was given (closed over by the handler)
    options,     \* per control: the <option> children of the <select>
    selected,    \* per control: index of the option whose selectedness is true, 0 if none
    changeHandler, \* TRUE once .on("change", ...) has run
    lineChart,   \* children of svg#lineChart
    barChart,    \* children of svg#barChart
    hover,       \* the mark whose fill is the hover colour
    tooltip,     \* the div.tooltip: inline display and content
    uncaught,    \* TRUE once an exception left an event handler uncaught
    fnPc,        \* harness of the helper functions: "idle", "call", "return"
    fnArg,       \* argument of the helper under check
    fnRet        \* what the helper returned

vars == <<pc, fetches, rawData, errorLog, data, options, selected, changeHandler,
          lineChart, barChart, hover, tooltip, uncaught, fnPc, fnArg, fnRet>>

dashVars == <<pc, fetches, rawData, errorLog, data, options, selected, changeHandler,
              lineChart, barChart, hover, tooltip, uncaught>>

fnVars == <<fnPc, fnArg, fnRet>>

(***************************************************************************)
(* Bounds                                                                  *)
(***************************************************************************)
MaxRows == 2
MaxStrLen == 4
MaxNumLen == 3

(***************************************************************************)
(* JavaScript values                                                       *)
(***************************************************************************)
JSVal(t, s, m, e) == [t |-> t, s |-> s, m |-> m, e |-> e]
Undefined == JSVal("undefined", <<>>, 0, 0)
Null == JSVal("null", <<>>, 0, 0)
NaN == JSVal("NaN", <<>>, 0, 0)
PosInfinity == JSVal("Infinity", <<>>, 0, 0)
NegInfinity == JSVal("-Infinity", <<>>, 0, 0)
Str(cs) == JSVal("string", cs, 0, 0)

RECURSIVE Num(_, _)
\* the finite number m * 10^e, with m free of trailing zeros
Num(m, e) ==
    IF m = 0 THEN JSVal("number", <<>>, 0, 0)
    ELSE IF m % 10 = 0 THEN Num(m \div 10, e + 1)
    ELSE JSVal("number", <<>>, m, e)

IsNumberType(v) == v.t \in {"number", "NaN", "Infinity", "-Infinity"}

\* !v
Falsy(v) ==
    \/ v.t \in {"undefined", "null", "NaN"}
    \/ v.t = "string" /\ v.s = <<>>
    \/ v.t = "number" /\ v.m = 0

\* a === b
StrictEquals(a, b) == a.t # "NaN" /\ a = b

\* Number(v) for the values the filter meets, then the test of isFinite
isFinite(v) ==
    CASE v.t = "number" -> TRUE
      [] v.t = "null" -> TRUE
      [] OTHER -> FALSE

(***************************************************************************)
(* Characters                                                              *)
(***************************************************************************)
LowerLetters == <<"a", "b", "c", "d", "e", "f", "g", "h", "i", "j", "k", "l", "m",
                  "n", "o", "p", "q", "r", "s", "t", "u", "v", "w", "x", "y", "z">>
UpperLetters == <<"A", "B", "C", "D", "E", "F", "G", "H", "I", "J", "K", "L", "M",
                  "N", "O", "P", "Q", "R", "S", "T", "U", "V", "W", "X", "Y", "Z">>
Digits == <<"0", "1", "2", "3", "4", "5", "6", "7", "8", "9">>

IndexIn(seq, c) == CHOOSE i \in 1..Len(seq) : seq[i] = c
IsIn(seq, c) == \E i \in 1..Len(seq) : seq[i] = c

IsDigit(c) == IsIn(Digits, c)
DigitVal(c) == IndexIn(Digits, c) - 1

WhiteSpace == {" ", "\t", "\n", "\r", "\f"}

\* the UTF-16 code unit of a character
CharCode(c) ==
    CASE IsIn(UpperLetters, c) -> 64 + IndexIn(UpperLetters, c)
      [] IsIn(LowerLetters, c) -> 96 + IndexIn(LowerLetters, c)
      [] IsIn(Digits, c) -> 47 + IndexIn(Digits, c)
      [] c = "\t" -> 9
      [] c = "\n" -> 10
      [] c = "\f" -> 12
      [] c = "\r" -> 13
      [] c = " " -> 32
      [] c = "$" -> 36
      [] c = "%" -> 37
      [] c = "+" -> 43
      [] c = "," -> 44
      [] c = "-" -> 45
      [] c = "." -> 46

toLowerChar(c) == IF IsIn(UpperLetters, c) THEN LowerLetters[IndexIn(UpperLetters, c)] ELSE c
toUpperChar(c) == IF IsIn(LowerLetters, c) THEN UpperLetters[IndexIn(LowerLetters, c)] ELSE c

(***************************************************************************)
(* String methods                                                          *)
(***************************************************************************)
RECURSIVE trimStart(_)
trimStart(s) ==
    IF s # <<>> /\ Head(s) \in WhiteSpace THEN trimStart(Tail(s)) ELSE s

RECURSIVE trimEnd(_)
trimEnd(s) ==
    IF s # <<>> /\ s[Len(s)] \in WhiteSpace THEN trimEnd(SubSeq(s, 1, Len(s) - 1)) ELSE s

\* String.prototype.trim
trim(s) == trimEnd(trimStart(s))

\* String.prototype.toLowerCase
toLowerCase(s) == [i \in 1..Len(s) |-> toLowerChar(s[i])]

RECURSIVE split(_)
\* s.split(" "): the pieces between single spaces, empty pieces kept
split(s) ==
    IF \A i \in 1..Len(s) : s[i] # " " THEN <<s>>
    ELSE LET k == CHOOSE i \in 1..Len(s) : s[i] = " " /\ \A j \in 1..(i - 1) : s[j] # " "
         IN <<SubSeq(s, 1, k - 1)>> \o split(SubSeq(s, k + 1, Len(s)))

\* word.charAt(0).toUpperCase() + word.slice(1)
capitalize(word) ==
    IF word = <<>> THEN <<>> ELSE <<toUpperChar(word[1])>> \o Tail(word)

RECURSIVE join(_)
\* words.join(" ")
join(words) ==
    IF words = <<>> THEN <<>>
    ELSE IF Len(words) = 1 THEN words[1]
    ELSE words[1] \o <<" ">> \o join(Tail(words))

\* function cleanString(str)
cleanString(str) ==
    IF Falsy(str) \/ str.t # "string" THEN Null
    ELSE LET words == split(toLowerCase(trim(str.s)))
         IN Str(join([i \in 1..Len(words) |-> capitalize(words[i])]))

(***************************************************************************)
(* parseFloat and parseNumber                                              *)
(***************************************************************************)
RECURSIVE CountDigits(_, _)
\* how many decimal digits s holds from position i on
CountDigits(s, i) ==
    IF i <= Len(s) /\ IsDigit(s[i]) THEN 1 + CountDigits(s, i + 1) ELSE 0

RECURSIVE DigitsToNat(_)
DigitsToNat(ds) ==
    IF ds = <<>> THEN 0
    ELSE 10 * DigitsToNat(SubSeq(ds, 1, Len(ds) - 1)) + DigitVal(ds[Len(ds)])

HasAt(s, i, word) ==
    /\ i + Len(word) - 1 <= Len(s)
    /\ \A j \in 1..Len(word) : s[i + j - 1] = word[j]

InfinityWord == <<"I", "n", "f", "i", "n", "i", "t", "y">>

\* parseFloat(s): leading white space is skipped, then the longest prefix that is
\* a StrDecimalLiteral is converted; NaN when there is none
parseFloat(s) ==
    LET t == trimStart(s)
        hasSign == t # <<>> /\ t[1] \in {"+", "-"}
        sign == IF hasSign /\ t[1] = "-" THEN -1 ELSE 1
        p == IF hasSign THEN 2 ELSE 1
        ni == CountDigits(t, p)
        hasDot == p + ni <= Len(t) /\ t[p + ni] = "."
        nf == IF hasDot THEN CountDigits(t, p + ni + 1) ELSE 0
        mantEnd == IF hasDot THEN p + ni + 1 + nf ELSE p + ni
        hasE == mantEnd <= Len(t) /\ t[mantEnd] \in {"e", "E"}
        hasESign == hasE /\ mantEnd + 1 <= Len(t) /\ t[mantEnd + 1] \in {"+", "-"}
        q == IF hasESign THEN mantEnd + 2 ELSE mantEnd + 1
        ne == IF hasE THEN CountDigits(t, q) ELSE 0
        ex == IF ne = 0 THEN 0
              ELSE (IF hasESign /\ t[mantEnd + 1] = "-" THEN -1 ELSE 1)
                   * DigitsToNat(SubSeq(t, q, q + ne - 1))
        mant == DigitsToNat(SubSeq(t, p, p + ni - 1)
                            \o (IF hasDot THEN SubSeq(t, p + ni + 1, p + ni + nf) ELSE <<>>))
    IN  IF HasAt(t, p, InfinityWord) THEN (IF sign = -1 THEN NegInfinity ELSE PosInfinity)
        ELSE IF ni + nf = 0 THEN NaN
        ELSE Num(sign * mant, ex - nf)

IsNotSymbol(c) == c \notin {"%", ",", "$"}

\* value.replace(/[%,$]/, ""): only the first occurrence goes
StripFirstSymbol(s) ==
    IF \A i \in 1..Len(s) : IsNotSymbol(s[i]) THEN s
    ELSE LET k == CHOOSE i \in 1..Len(s) : ~IsNotSymbol(s[i])
                                          /\ \A j \in 1..(i - 1) : IsNotSymbol(s[j])
         IN SubSeq(s, 1, k - 1) \o SubSeq(s, k + 1, Len(s))

\* value.replace(/[%,$]/g, "")
StripSymbols(s) == SelectSeq(s, IsNotSymbol)

\* function parseNumber(value); value is a string or undefined, as d3.csv
\* delivers the fields of a row
parseNumber(value) ==
    IF Falsy(value) THEN Null
    ELSE parseFloat(trim(StripSymbols(value.s)))

(***************************************************************************)
(* Loading and cleaning                                                    *)
(***************************************************************************)
\* the record built from one parsed CSV row.  The row's fields TimePeriod, CILow
\* and CIHigh stand for the columns "Time Period", "Confidence Interval (Low
\* Bound)" and "Confidence Interval (High Bound)"
cleanRow(row) ==
    [Indicator |-> cleanString(row.Indicator),
     Group |-> cleanString(row.Group),
     Subgroup |-> cleanString(row.Subgroup),
     TimePeriod |-> cleanString(row.TimePeriod),
     Value |-> parseNumber(row.Value),
     CI_Lower |-> parseNumber(row.CILow),
     CI_Upper |-> parseNumber(row.CIHigh)]

\* the predicate of .filter(row => ...)
keepRow(row) ==
    /\ ~Falsy(row.Indicator)
    /\ ~Falsy(row.Group)
    /\ ~Falsy(row.Subgroup)
    /\ ~Falsy(row.TimePeriod)
    /\ isFinite(row.Value)

\* rawData.map(...).filter(...)
cleanData(rows) ==
    SelectSeq([i \in 1..Len(rows) |-> cleanRow(rows[i])], keepRow)

(***************************************************************************)
(* The filter controls                                                     *)
(***************************************************************************)
Controls == {"groupFilter", "timeFilter", "indicatorFilter"}

GroupPlaceholder ==
    <<"S", "e", "l", "e", "c", "t", " ", "a", " ", "d", "e", "m", "o", "g", "r", "a",
      "p", "h", "i", "c", " ", "g", "r", "o", "u", "p", ".", ".", ".">>

TimePlaceholder ==
    <<"S", "e", "l", "e", "c", "t", " ", "a", " ", "t", "i", "m", "e", " ", "p", "e",
      "r", "i", "o", "d", ".", ".", ".">>

IndicatorPlaceholder ==
    <<"S", "e", "l", "e", "c", "t", " ", "a", " ", "m", "e", "n", "t", "a", "l", " ",
      "h", "e", "a", "l", "t", "h", " ", "i", "n", "d", "i", "c", "a", "t", "o", "r",
      ".", ".", ".">>

\* code-unit order of two strings, the order of Array.prototype.sort()
StrLess(a, b) ==
    \E k \in 1..(Len(b)) :
        /\ \A j \in 1..(k - 1) : j <= Len(a) /\ a[j] = b[j]
        /\ \/ k = Len(a) + 1
           \/ k <= Len(a) /\ CharCode(a[k]) < CharCode(b[k])

RECURSIVE distinct(_)
\* Array.from(new Set(values)): first occurrences, in order
distinct(values) ==
    IF values = <<>> THEN <<>>
    ELSE LET front == distinct(SubSeq(values, 1, Len(values) - 1))
             last == values[Len(values)]
         IN IF \E i \in 1..Len(front) : front[i] = last THEN front
            ELSE Append(front, last)

\* x put into the sorted array before the first element greater than it
insertSorted(sorted, x) ==
    LET n == Cardinality({i \in 1..Len(sorted) : ~StrLess(x.s, sorted[i].s)})
    IN SubSeq(sorted, 1, n) \o <<x>> \o SubSeq(sorted, n + 1, Len(sorted))

\* the array left in insertion order
unsorted(values) == values

RECURSIVE sort(_)
\* .sort() with the default comparator, on an array of strings
sort(values) ==
    IF values = <<>> THEN <<>>
    ELSE insertSorted(sort(SubSeq(values, 1, Len(values) - 1)), values[Len(values)])

\* <option disabled selected>placeholder</option>: no value attribute
placeholderOption(text) ==
    [value |-> Null, text |-> text, disabled |-> TRUE, class |-> ""]

\* an <option class="option-item" value=d>d</option>
itemOption(d) ==
    [value |-> d, text |-> d.s, disabled |-> FALSE, class |-> "option-item"]

\* populate(selector, placeholder, options): the children of the <select> afterwards
populate(placeholder, values) ==
    <<placeholderOption(placeholder)>> \o [i \in 1..Len(values) |-> itemOption(values[i])]

groupOptions(d) == sort(distinct([i \in 1..Len(d) |-> d[i].Group]))
timeOptions(d) == sort(distinct([i \in 1..Len(d) |-> d[i].TimePeriod]))
indicatorOptions(d) == sort(distinct([i \in 1..Len(d) |-> d[i].Indicator]))

\* function populateFilters(data): the options of the three controls afterwards
populateFilters(d) ==
    [c \in Controls |->
        CASE c = "groupFilter" -> populate(GroupPlaceholder, groupOptions(d))
          [] c = "timeFilter" -> populate(TimePlaceholder, timeOptions(d))
          [] c = "indicatorFilter" -> populate(IndicatorPlaceholder, indicatorOptions(d))]

\* the value of an <option>: its value attribute, its text when it has none
optionValue(o) == IF o.value.t = "null" THEN Str(o.text) ELSE o.value

\* d3.select(selector).property("value"): the value of the selected option, the
\* empty string when no option is selected
selectValue(opts, sel, c) ==
    IF sel[c] = 0 THEN Str(<<>>) ELSE optionValue(opts[c][sel[c]])

(***************************************************************************)
(* Views and chart renderers                                               *)
(***************************************************************************)
\* the substring variant: d.Indicator.includes(selectedIndicator)
lineDataIncludes(d, selectedGroup, selectedIndicator) ==
    LET match(r) == StrictEquals(r.Group, selectedGroup)
                    /\ \E i \in 1..(Len(r.Indicator.s) + 1) :
                           HasAt(r.Indicator.s, i, selectedIndicator.s)
    IN SelectSeq(d, match)

\* data.filter(d => d.Group === selectedGroup && d.Indicator === selectedIndicator)
lineData(d, selectedGroup, selectedIndicator) ==
    LET match(r) == StrictEquals(r.Group, selectedGroup)
                    /\ StrictEquals(r.Indicator, selectedIndicator)
    IN SelectSeq(d, match)

\* data.filter(d => d.TimePeriod === selectedTime && d.Indicator === selectedIndicator)
barData(d, selectedTime, selectedIndicator) ==
    LET match(r) == StrictEquals(r.TimePeriod, selectedTime)
                    /\ StrictEquals(r.Indicator, selectedIndicator)
    IN SelectSeq(d, match)

\* an element of a chart's svg: a <text> with its text, or the plot <g> with the
\* domain of its x scale and the data bound to its marks (circles or bars)
TextElement(text) == [tag |-> "text", text |-> text, domain |-> <<>>, marks |-> <<>>]
PlotElement(domain, marks) == [tag |-> "g", text |-> "", domain |-> domain, marks |-> marks]

NoDataMessage == TextElement("No data available for this selection.")

\* the svg not cleared before drawing
keepAll(children) == children

\* svg.selectAll("*").remove(): what is left of the svg's children
removeAll(children) == <<>>

\* function drawLineChart(data): the children of svg#lineChart afterwards
drawLineChart(children, view) ==
    IF Len(view) = 0 THEN removeAll(children) \o <<NoDataMessage>>
    ELSE removeAll(children)
         \o <<PlotElement(distinct([i \in 1..Len(view) |-> view[i].TimePeriod]), view),
              TextElement("Time Period"),
              TextElement("Value (%)")>>

\* function drawBarChart(data): the children of svg#barChart afterwards
drawBarChart(children, view) ==
    IF Len(view) = 0 THEN removeAll(children) \o <<NoDataMessage>>
    ELSE removeAll(children)
         \o <<PlotElement(distinct([i \in 1..Len(view) |-> view[i].Subgroup]), view),
              TextElement("Subgroup"),
              TextElement("Value (%)")>>

\* renderCharts with the call of drawBarChart left out
renderChartsLineOnly(d, opts, sel, line, bar) ==
    LET selectedGroup == selectValue(opts, sel, "groupFilter")
        selectedTime == selectValue(opts, sel, "timeFilter")
        selectedIndicator == selectValue(opts, sel, "indicatorFilter")
    IN IF Falsy(selectedGroup) \/ Falsy(selectedTime) \/ Falsy(selectedIndicator)
       THEN [line |-> line, bar |-> bar, drawn |-> FALSE]
       ELSE [line |-> drawLineChart(line, lineData(d, selectedGroup, selectedIndicator)),
             bar |-> bar,
             drawn |-> TRUE]

\* function renderCharts(data), given the controls and the two svgs as they are:
\* the two svgs afterwards, and whether the charts were drawn
renderCharts(d, opts, sel, line, bar) ==
    LET selectedGroup == selectValue(opts, sel, "groupFilter")
        selectedTime == selectValue(opts, sel, "timeFilter")
        selectedIndicator == selectValue(opts, sel, "indicatorFilter")
    IN IF Falsy(selectedGroup) \/ Falsy(selectedTime) \/ Falsy(selectedIndicator)
       THEN [line |-> line, bar |-> bar, drawn |-> FALSE]
       ELSE [line |-> drawLineChart(line, lineData(d, selectedGroup, selectedIndicator)),
             bar |-> drawBarChart(bar, barData(d, selectedTime, selectedIndicator)),
             drawn |-> TRUE]

RECURSIVE marksOf(_)
\* the data of the marks (circles, bars) in a chart, in document order
marksOf(children) ==
    IF children = <<>> THEN <<>>
    ELSE Head(children).marks \o marksOf(Tail(children))

(***************************************************************************)
(* Tooltip                                                                 *)
(***************************************************************************)
NoHover == [chart |-> "none", idx |-> 0]

\* v.toFixed(1) throws a TypeError unless v is a number
toFixedThrows(v) == ~IsNumberType(v)

\* the template literal of the mouseover handlers throws
contentThrows(d) ==
    toFixedThrows(d.Value) \/ toFixedThrows(d.CI_Lower) \/ toFixedThrows(d.CI_Upper)

\* function showTooltip(event, content); the content is kept as the three numbers
\* the template formats
showTooltip(d) == [display |-> "block", content |-> <<d.Value, d.CI_Lower, d.CI_Upper>>]

\* function hideTooltip()
hideTooltip(tip) == [tip EXCEPT !.display = "none"]

(***************************************************************************)
(* Inputs                                                                  *)
(***************************************************************************)
SeqsUpTo(S, n) == UNION {[1..k -> S] : k \in 0..n}

RawRow(i, g, s, t, v, lo, hi) ==
    [Indicator |-> i, Group |-> g, Subgroup |-> s, TimePeriod |-> t,
     Value |-> v, CILow |-> lo, CIHigh |-> hi]

RawGroups == {Str(<<"g">>), Str(<<"h">>)}
RawTimes == {Str(<<"t", "1">>), Str(<<"t", "2">>)}

GoodRow(i, g, t) ==
    RawRow(i, g, Str(<<"s">> \o g.s), t, Str(<<"5">>), Str(<<"4">>), Str(<<"6">>))

\* well-formed rows: one indicator in every group and time period, and a second
\* indicator of which the first is a substring
GoodRows ==
    {GoodRow(Str(<<"a">>), g, t) : g \in RawGroups, t \in RawTimes}
        \cup {GoodRow(Str(<<"a", "b">>), Str(<<"g">>), Str(<<"t", "1">>))}

\* rows with padded or decorated fields, and rows with a field empty, absent
\* or not numeric
OddRows ==
    LET a == Str(<<"a">>)
        g == Str(<<"g">>)
        s == Str(<<"s", "g">>)
        t == Str(<<"t", "1">>)
        five == Str(<<"5">>)
        four == Str(<<"4">>)
        six == Str(<<"6">>)
    IN {RawRow(a, g, Str(<<" ", "s", " ", " ", "g">>), t, Str(<<"7", "%">>), Str(<<>>), Str(<<>>)),
        RawRow(a, Str(<<" ", "G">>), Str(<<"r">>), t, Str(<<"1", ",", "5">>), Str(<<"x">>), six),
        RawRow(a, Str(<<>>), s, t, five, four, six),
        RawRow(a, g, Str(<<" ", " ">>), t, five, four, six),
        RawRow(a, g, s, t, Str(<<>>), four, six),
        RawRow(a, g, s, t, Str(<<"x">>), four, six),
        RawRow(a, g, s, t, Str(InfinityWord), four, six),
        RawRow(a, g, s, t, Undefined, Undefined, six)}

RawRows == GoodRows \cup OddRows

\* the files d3.csv may deliver
RawFiles == SeqsUpTo(RawRows, MaxRows)

CleanAlphabet == {" ", "\t", "a", "B"}
CleanInputs ==
    {Str(s) : s \in SeqsUpTo(CleanAlphabet, MaxStrLen)}
        \cup {Null, Undefined, Num(5, 0), Num(0, 0)}

ParseAlphabet == {"1", "5", ".", ",", "$", "%", " ", "x", "-", "e"}
ParseInputs == {Str(s) : s \in SeqsUpTo(ParseAlphabet, MaxNumLen)} \cup {Null, Undefined}

(***************************************************************************)
(* The dashboard                                                           *)
(***************************************************************************)
\* the page before the script has loaded anything: three empty <select>s and
\* two empty <svg>s
EmptyControls == [c \in Controls |-> <<>>]
NoneSelected == [c \in Controls |-> 0]
EmptyChart == <<>>

\* the tooltip div appended to the body, not styled yet
NewTooltip == [display |-> "", content |-> <<>>]

DashInit ==
    /\ pc = "fetching"
    /\ fetches = 1
    /\ rawData = <<>>
    /\ errorLog = 0
    /\ data = <<>>
    /\ options = EmptyControls
    /\ selected = NoneSelected
    /\ changeHandler = FALSE
    /\ lineChart = EmptyChart
    /\ barChart = EmptyChart
    /\ hover = NoHover
    /\ tooltip = NewTooltip
    /\ uncaught = FALSE

Init ==
    /\ DashInit
    /\ fnPc = "idle"
    /\ fnArg = Undefined
    /\ fnRet = Undefined

\* the placeholder carries the selected attribute, so it is the selected option
\* of each control once populate has set the control's html
placeholderSelected == [c \in Controls |-> 1]

\* function initDashboard(data), given the two svgs as they are: the controls,
\* the svgs and the change handler afterwards
initDashboard(d, line, bar) ==
    LET opts == populateFilters(d)
        r == renderCharts(d, opts, placeholderSelected, line, bar)
    IN [options |-> opts, selected |-> placeholderSelected,
        line |-> r.line, bar |-> r.bar, changeHandler |-> TRUE]

\* d3.csv(...).then(rawData => ...): the file arrived and was parsed into rows
LoadOk ==
    /\ pc = "fetching"
    /\ \E rows \in RawFiles :
          LET cleanedData == cleanData(rows)
              page == initDashboard(cleanedData, lineChart, barChart)
          IN /\ rawData' = rows
             /\ data' = cleanedData
             /\ options' = page.options
             /\ selected' = page.selected
             /\ lineChart' = page.line
             /\ barChart' = page.bar
             /\ changeHandler' = page.changeHandler
    /\ pc' = "ready"
    /\ UNCHANGED <<fetches, errorLog, hover, tooltip, uncaught, fnVars>>

\* a catch handler that logs and then sets the dashboard up with no data
LoadFailThenInit ==
    /\ pc = "fetching"
    /\ pc' = "failed"
    /\ errorLog' = errorLog + 1
    /\ LET page == initDashboard(<<>>, lineChart, barChart)
       IN /\ options' = page.options
          /\ selected' = page.selected
          /\ lineChart' = page.line
          /\ barChart' = page.bar
          /\ changeHandler' = page.changeHandler
    /\ UNCHANGED <<fetches, rawData, data, hover, tooltip, uncaught, fnVars>>

\* .catch(error => console.error(...)): the fetch or the parse failed
LoadFail ==
    /\ pc = "fetching"
    /\ pc' = "failed"
    /\ errorLog' = errorLog + 1
    /\ UNCHANGED <<fetches, rawData, data, options, selected, changeHandler, lineChart, barChart,
                   hover, tooltip, uncaught, fnVars>>

\* the user picks option k of control c; the change handler, if registered, runs
\* renderCharts(data).  A redraw replaces the marks, the hovered one included
Change(c, k) ==
    /\ k \in 1..Len(options[c])
    /\ ~options[c][k].disabled
    /\ k # selected[c]
    /\ selected' = [selected EXCEPT ![c] = k]
    /\ LET r == IF changeHandler
                THEN renderCharts(data, options, selected', lineChart, barChart)
                ELSE [line |-> lineChart, bar |-> barChart, drawn |-> FALSE]
       IN /\ lineChart' = r.line
          /\ barChart' = r.bar
          /\ hover' = IF r.drawn THEN NoHover ELSE hover
    /\ UNCHANGED <<pc, fetches, rawData, errorLog, data, options, changeHandler, tooltip, uncaught,
                   fnVars>>

\* the mouseover handler of a mark: recolour it, then show the tooltip; an
\* exception thrown while the content is built leaves the handler uncaught
Mouseover(chart, marks, i) ==
    /\ hover = NoHover
    /\ i \in 1..Len(marks)
    /\ hover' = [chart |-> chart, idx |-> i]
    /\ IF contentThrows(marks[i])
       THEN uncaught' = TRUE /\ tooltip' = tooltip
       ELSE uncaught' = uncaught /\ tooltip' = showTooltip(marks[i])
    /\ UNCHANGED <<pc, fetches, rawData, errorLog, data, options, selected, changeHandler,
                   lineChart, barChart, fnVars>>

\* the mouseout handler of a mark: restore its colour and hide the tooltip
Mouseout(chart) ==
    /\ hover.chart = chart
    /\ hover' = NoHover
    /\ tooltip' = hideTooltip(tooltip)
    /\ UNCHANGED <<pc, fetches, rawData, errorLog, data, options, selected, changeHandler,
                   lineChart, barChart, uncaught, fnVars>>

MouseoverPoint(i) == Mouseover("line", marksOf(lineChart), i)
MouseoutPoint == Mouseout("line")
MouseoverBar(i) == Mouseover("bar", marksOf(barChart), i)
MouseoutBar == Mouseout("bar")

Next ==
    \/ LoadOk
    \/ LoadFail
    \/ \E c \in Controls : \E k \in 1..(MaxRows + 1) : Change(c, k)
    \/ \E i \in 1..MaxRows : MouseoverPoint(i)
    \/ MouseoutPoint
    \/ \E i \in 1..MaxRows : MouseoverBar(i)
    \/ MouseoutBar

Spec == Init /\ [][Next]_vars

(***************************************************************************)
(* The helper functions on their own                                       *)
(***************************************************************************)
InitCleanString ==
    /\ DashInit
    /\ fnPc = "call"
    /\ fnArg \in CleanInputs
    /\ fnRet = Undefined

CallCleanString ==
    /\ fnPc = "call"
    /\ fnRet' = cleanString(fnArg)
    /\ fnPc' = "return"
    /\ UNCHANGED <<fnArg, dashVars>>

SpecCleanString == InitCleanString /\ [][CallCleanString]_vars

InitParseNumber ==
    /\ DashInit
    /\ fnPc = "call"
    /\ fnArg \in ParseInputs
    /\ fnRet = Undefined

CallParseNumber ==
    /\ fnPc = "call"
    /\ fnRet' = parseNumber(fnArg)
    /\ fnPc' = "return"
    /\ UNCHANGED <<fnArg, dashVars>>

SpecParseNumber == InitParseNumber /\ [][CallParseNumber]_vars

(***************************************************************************)
(* Properties                                                              *)
(***************************************************************************)
\* the k-th smallest member of a set of indices
KthIndex(S, k) == CHOOSE j \in S : Cardinality({i \in S : i < j}) = k - 1

\* the subsequence of seq at the indices in S, in index order
SubsequenceAt(seq, S) == [k \in 1..Cardinality(S) |-> seq[KthIndex(S, k)]]

IsNonEmptyString(v) == v.t = "string" /\ Len(v.s) > 0
IsFiniteNumber(v) == v.t = "number"

\* a normalized row that meets the retention rule as the specification states it
Retainable(r) ==
    /\ IsNonEmptyString(r.Indicator)
    /\ IsNonEmptyString(r.Group)
    /\ IsNonEmptyString(r.Subgroup)
    /\ IsNonEmptyString(r.TimePeriod)
    /\ IsFiniteNumber(r.Value)

\* C1: the dataset handed to initDashboard is exactly the normalized rows, in row
\* order, whose four labels are non-empty strings and whose Value is a finite
\* number
C1_DatasetIsTheValidRows ==
    pc = "ready" =>
        data = SubsequenceAt([i \in 1..Len(rawData) |-> cleanRow(rawData[i])],
                             {i \in 1..Len(rawData) : Retainable(cleanRow(rawData[i]))})

\* the record bound to the hovered mark
HoveredMark ==
    IF hover.chart = "line" THEN marksOf(lineChart)[hover.idx]
    ELSE marksOf(barChart)[hover.idx]

\* C2: the mouseover handler of a point or bar completes and shows the tooltip of
\* its record, whether or not the record has CI bounds: while a mark of a record
\* with a finite Value is hovered, the tooltip is displayed with that record's
\* numbers (no exception ended the handler before showTooltip)
C2_HoverShowsTooltip ==
    (hover.chart # "none" /\ IsFiniteNumber(HoveredMark.Value)) =>
        /\ tooltip.display = "block"
        /\ tooltip.content
               = <<HoveredMark.Value, HoveredMark.CI_Lower, HoveredMark.CI_Upper>>

\* the words of a string: its maximal runs of characters other than the space
WordsOf(s) == LET nonEmpty(w) == w # <<>> IN SelectSeq(split(s), nonEmpty)

\* the title-cased, whitespace-normalized label of a string
TitleCased(s) ==
    LET words == WordsOf(toLowerCase(trim(s)))
    IN join([i \in 1..Len(words) |-> capitalize(words[i])])

\* C3: cleanString returns null for null, the empty string and non-strings, and
\* for a non-empty string its words, title-cased and joined by single spaces
C3_CleanStringNormalizes ==
    fnPc = "return" =>
        fnRet = IF fnArg.t # "string" \/ fnArg.s = <<>> THEN Null
                ELSE Str(TitleCased(fnArg.s))

\* a control whose selection is unset: it shows no option or its placeholder
Unset(c) == selected[c] = 0 \/ options[c][selected[c]].disabled
AllSet == \A c \in Controls : ~Unset(c)

\* C4: a step that leaves a control unset (renderCharts ran, if at all, with a
\* selection missing) draws nothing: both svgs stay as they were
C4_NothingDrawnWhileUnset ==
    [][(\E c \in Controls : Unset(c)') => UNCHANGED <<lineChart, barChart>>]_vars

\* C5: once the load has failed the failure was logged once, the file was
\* requested once, and no control is populated, no chart drawn, no handler set
C5_FailedLoadLeavesPageEmpty ==
    errorLog > 0 =>
        /\ pc = "failed"
        /\ errorLog = 1
        /\ fetches = 1
        /\ options = EmptyControls
        /\ selected = NoneSelected
        /\ lineChart = EmptyChart
        /\ barChart = EmptyChart
        /\ ~changeHandler

C5_Witness == pc = "failed" /\ errorLog = 1

\* the value each control shows
Shown(c) == optionValue(options[c][selected[c]])

\* the records a view must hold, in dataset order
LineMatches == {i \in 1..Len(data) : data[i].Group = Shown("groupFilter")
                                      /\ data[i].Indicator = Shown("indicatorFilter")}
BarMatches == {i \in 1..Len(data) : data[i].TimePeriod = Shown("timeFilter")
                                     /\ data[i].Indicator = Shown("indicatorFilter")}

\* C6: with all three selections set, the line chart plots exactly the records of
\* the selected group and indicator and the bar chart exactly those of the
\* selected time and indicator, both in dataset order
C6_ViewsAreTheMatchingRecords ==
    (pc = "ready" /\ AllSet) =>
        /\ marksOf(lineChart) = SubsequenceAt(data, LineMatches)
        /\ marksOf(barChart) = SubsequenceAt(data, BarMatches)

C6_Witness ==
    /\ pc = "ready" /\ AllSet
    /\ Len(data) = 2
    /\ Len(marksOf(lineChart)) = 1
    /\ Len(marksOf(barChart)) = 2
    /\ data[1] # data[2]

\* C7: a chart whose view is empty holds the no-data message and nothing else
C7_EmptyViewShowsOnlyMessage ==
    pc = "ready" =>
        /\ LineMatches = {} => lineChart = <<NoDataMessage>>
        /\ BarMatches = {} => barChart = <<NoDataMessage>>

C7_Witness ==
    /\ pc = "ready" /\ AllSet
    /\ Len(data) = 2
    /\ LineMatches = {}
    /\ BarMatches # {}
    /\ lineChart = <<NoDataMessage>>

\* the argument without '%', ',' and '$' and without surrounding white space
Remainder(s) ==
    LET kept == {i \in 1..Len(s) : s[i] \notin {"%", ",", "$"}}
        solid == {i \in kept : s[i] \notin WhiteSpace}
        inner == {i \in kept : (\E j \in solid : j <= i) /\ (\E j \in solid : i <= j)}
    IN SubsequenceAt(s, inner)

\* the grammar of a numeric literal (StrDecimalLiteral)
AllDigits(s) == Len(s) >= 1 /\ \A i \in 1..Len(s) : IsDigit(s[i])

IsMantissa(s) ==
    \/ AllDigits(s)
    \/ \E k \in 1..Len(s) :
          LET whole == SubSeq(s, 1, k - 1)
              frac == SubSeq(s, k + 1, Len(s))
          IN /\ s[k] = "."
             /\ whole = <<>> \/ AllDigits(whole)
             /\ frac = <<>> \/ AllDigits(frac)
             /\ Len(whole) + Len(frac) >= 1

IsExponent(s) ==
    /\ Len(s) >= 2
    /\ s[1] \in {"e", "E"}
    /\ \/ AllDigits(Tail(s))
       \/ s[2] \in {"+", "-"} /\ AllDigits(SubSeq(s, 3, Len(s)))

IsUnsignedLiteral(s) ==
    \/ s = InfinityWord
    \/ \E k \in 1..Len(s) :
          /\ IsMantissa(SubSeq(s, 1, k))
          /\ k = Len(s) \/ IsExponent(SubSeq(s, k + 1, Len(s)))

IsLiteral(s) ==
    \/ IsUnsignedLiteral(s)
    \/ Len(s) >= 1 /\ s[1] \in {"+", "-"} /\ IsUnsignedLiteral(Tail(s))

RECURSIVE Pow10(_)
Pow10(n) == IF n = 0 THEN 1 ELSE 10 * Pow10(n - 1)

RECURSIVE NatOf(_)
\* the natural number a digit string denotes, by place value
NatOf(ds) ==
    IF ds = <<>> THEN 0 ELSE DigitVal(Head(ds)) * Pow10(Len(ds) - 1) + NatOf(Tail(ds))

\* the number a literal denotes
LiteralValue(s) ==
    LET negative == s[1] = "-"
        u == IF s[1] \in {"+", "-"} THEN Tail(s) ELSE s
        ePos == IF \E i \in 1..Len(u) : u[i] \in {"e", "E"}
                THEN CHOOSE i \in 1..Len(u) : u[i] \in {"e", "E"}
                ELSE Len(u) + 1
        mantissa == SubSeq(u, 1, ePos - 1)
        dotPos == IF \E i \in 1..Len(mantissa) : mantissa[i] = "."
                  THEN CHOOSE i \in 1..Len(mantissa) : mantissa[i] = "."
                  ELSE Len(mantissa) + 1
        whole == SubSeq(mantissa, 1, dotPos - 1)
        frac == SubSeq(mantissa, dotPos + 1, Len(mantissa))
        expDigits == SubSeq(u, IF ePos + 1 <= Len(u) /\ u[ePos + 1] \in {"+", "-"}
                               THEN ePos + 2 ELSE ePos + 1, Len(u))
        exponent == IF ePos + 1 <= Len(u) /\ u[ePos + 1] = "-"
                    THEN 0 - NatOf(expDigits) ELSE NatOf(expDigits)
        magnitude == NatOf(whole \o frac)
        scale == exponent - Len(frac)
    IN IF u = InfinityWord THEN (IF negative THEN NegInfinity ELSE PosInfinity)
       ELSE Num((IF negative THEN -1 ELSE 1) * magnitude, scale)

\* the number a whole string denotes, NaN when it is not a literal
Denoted(s) == IF IsLiteral(s) THEN LiteralValue(s) ELSE NaN

\* the number the longest literal prefix of a string denotes, NaN when no prefix
\* is a literal
PrefixDenoted(s) ==
    LET P == {n \in 1..Len(s) : IsLiteral(SubSeq(s, 1, n))}
    IN IF P = {} THEN NaN
       ELSE LiteralValue(SubSeq(s, 1, CHOOSE n \in P : \A k \in P : k <= n))

IsAbsentOrEmpty(v) == v.t \in {"undefined", "null"} \/ (v.t = "string" /\ v.s = <<>>)

\* C8 as claimed: parseNumber returns null for absent and empty input and else
\* the number the remainder denotes, NaN when the remainder is not a number
C8_ParseNumberDenotesRemainder ==
    fnPc = "return" =>
        fnRet = IF IsAbsentOrEmpty(fnArg) THEN Null ELSE Denoted(Remainder(fnArg.s))

\* C8 as amended: parseNumber returns null for absent and empty input and else
\* the number denoted by the longest prefix of the remainder that is a numeric
\* literal, NaN exactly when no prefix is one
C8_ParseNumberDenotesPrefix ==
    fnPc = "return" =>
        fnRet = IF IsAbsentOrEmpty(fnArg) THEN Null ELSE PrefixDenoted(Remainder(fnArg.s))

C8_Witness ==
    /\ fnPc = "return"
    /\ fnArg.t = "string"
    /\ Len(Remainder(fnArg.s)) < Len(fnArg.s)
    /\ ~IsLiteral(Remainder(fnArg.s))
    /\ fnRet.t = "number"

RECURSIVE LexLess(_, _)
\* a comes before b in lexicographic order of code units
LexLess(a, b) ==
    IF b = <<>> THEN FALSE
    ELSE IF a = <<>> THEN TRUE
    ELSE IF Head(a) = Head(b) THEN LexLess(Tail(a), Tail(b))
    ELSE CharCode(Head(a)) < CharCode(Head(b))

FieldOf(c, r) ==
    CASE c = "groupFilter" -> r.Group
      [] c = "timeFilter" -> r.TimePeriod
      [] c = "indicatorFilter" -> r.Indicator

PlaceholderOf(c) ==
    CASE c = "groupFilter" -> GroupPlaceholder
      [] c = "timeFilter" -> TimePlaceholder
      [] c = "indicatorFilter" -> IndicatorPlaceholder

\* C9: each control holds one disabled placeholder option first and then the
\* values of its field in the dataset, each once, in ascending order
C9_OptionsAreDistinctSorted ==
    pc = "ready" =>
        \A c \in Controls :
            LET opts == options[c]
            IN /\ Len(opts) >= 1
               /\ opts[1].disabled /\ opts[1].text = PlaceholderOf(c)
               /\ \A k \in 2..Len(opts) :
                     ~opts[k].disabled /\ opts[k].text = opts[k].value.s
               /\ {opts[k].value : k \in 2..Len(opts)}
                      = {FieldOf(c, data[i]) : i \in 1..Len(data)}
               /\ \A k \in 2..(Len(opts) - 1) :
                     LexLess(opts[k].value.s, opts[k + 1].value.s)

C9_Witness ==
    /\ pc = "ready"
    /\ Len(data) = 2
    /\ LexLess(data[2].Group.s, data[1].Group.s)
    /\ data[1].Indicator = data[2].Indicator
    /\ Len(options["groupFilter"]) = 3
    /\ Len(options["indicatorFilter"]) = 2

\* what a chart holds when it was drawn from a view
ChartShows(chart, view) ==
    IF view = <<>> THEN chart = <<NoDataMessage>>
    ELSE /\ Len(chart) = 3
         /\ chart[1].tag = "g"
         /\ chart[1].marks = view
         /\ chart[2].marks = <<>> /\ chart[3].marks = <<>>

\* C10: once the change handler is registered the controls are populated, the
\* dataset is the one that was loaded, and both charts are the ones derived from
\* the controls' current selections
C10_ChartsFollowSelections ==
    changeHandler =>
        /\ pc = "ready"
        /\ data = cleanData(rawData)
        /\ \A c \in Controls : options[c] # <<>> /\ selected[c] \in 1..Len(options[c])
        /\ ChartShows(lineChart, SubsequenceAt(data, LineMatches))
        /\ ChartShows(barChart, SubsequenceAt(data, BarMatches))

C10_Witness ==
    /\ changeHandler
    /\ AllSet
    /\ Len(marksOf(lineChart)) = 2
    /\ Len(marksOf(barChart)) = 1
    /\ tooltip.display = "block"

====
